---- MODULE Spec2Model ----
(***************************************************************************)
(* Model of the Mok Transport internal sales system (src/main.py): the     *)
(* sales table of sales.db, the record_sale handler (request validation,   *)
(* derivation of vat / total_invoice / profit, INSERT, commit) and the     *)
(* read handlers get_sales, export_excel, invoice, dashboard and           *)
(* dashboard_monthly.                                                      *)
(*                                                                         *)
(* Money.  The code holds amounts as IEEE doubles.  The model holds them   *)
(* as integers counting 1/Unit of a currency unit (Unit is 100000), and    *)
(* draws the inputs from multiples of 0.001, so that 15 % of an input is   *)
(* exact.                                                                  *)
(* Python's round(x, 2) rounds the binary value of x, so a decimal tie     *)
(* (x exactly half a cent between two cents) goes up or down depending on  *)
(* the representation error: Round2 returns both outcomes.                 *)
(*                                                                         *)
(* Dates.  sale_date is a string, held as a tuple of characters; the       *)
(* parser models pandas.to_datetime on ISO calendar dates (YYYY-MM-DD),    *)
(* the format the sale form submits, and yields NaT on anything else.      *)
(***************************************************************************)
EXTENDS Integers, Sequences, FiniteSets, TLC

VARIABLES ledger, seq, writer, pc, req, loc, out, resp

vars == <<ledger, seq, writer, pc, req, loc, out, resp>>

(* ------------------------------ bounds -------------------------------- *)

\* Number of record_sale requests in flight over a run.
NumCalls == 2

(* ----------------------------- constants ------------------------------ *)

\* VAT_RATE = 0.15, as a percentage.
VatPercent == 15

\* round(x, 2) of the responses and of the invoice.
Decimals == 2

(* ------------------------------ numbers ------------------------------- *)

RECURSIVE Pow10(_)
Pow10(n) == IF n = 0 THEN 1 ELSE 10 * Pow10(n - 1)

\* one currency unit: thousandths (the inputs) times hundredths (the rate)
Unit == 1000 * 100

\* units.mills as an amount, e.g. Money(1, 4) is 1.004
Money(units, mills) == units * Unit + mills * (Unit \div 1000)

Max(a, b) == IF a >= b THEN a ELSE b

RECURSIVE SumSeq(_)
SumSeq(s) == IF s = <<>> THEN 0 ELSE Head(s) + SumSeq(Tail(s))

\* The outcomes round(x, Decimals) can have.
Round2(x) ==
    LET q  == Unit \div Pow10(Decimals)
        lo == (x \div q) * q
        r  == x - lo
    IN  IF 2 * r < q THEN {lo}
        ELSE IF 2 * r > q THEN {lo + q}
        ELSE {lo, lo + q}

(* ------------------------------ strings ------------------------------- *)

DigitChars == <<"0", "1", "2", "3", "4", "5", "6", "7", "8", "9">>

IsDigit(c) == \E i \in 1..10 : DigitChars[i] = c

DigitVal(c) == IF IsDigit(c) THEN (CHOOSE i \in 1..10 : DigitChars[i] = c) - 1 ELSE 0

AllDigits(s) == \A i \in 1..Len(s) : IsDigit(s[i])

RECURSIVE DigitsVal(_)
DigitsVal(s) ==
    IF s = <<>> THEN 0
    ELSE 10 * DigitsVal(SubSeq(s, 1, Len(s) - 1)) + DigitVal(s[Len(s)])

\* n in decimal, zero-padded to width w
RECURSIVE ZeroPad(_, _)
ZeroPad(n, w) ==
    IF w = 0 THEN <<>>
    ELSE Append(ZeroPad(n \div 10, w - 1), DigitChars[(n % 10) + 1])

\* lexicographic order of two character tuples of digits and "-"
CharRank(c) == IF IsDigit(c) THEN DigitVal(c) + 1 ELSE 0

RECURSIVE LexLess(_, _)
LexLess(a, b) ==
    IF b = <<>> THEN FALSE
    ELSE IF a = <<>> THEN TRUE
    ELSE IF CharRank(Head(a)) # CharRank(Head(b))
         THEN CharRank(Head(a)) < CharRank(Head(b))
    ELSE LexLess(Tail(a), Tail(b))

(* ------------------------- request validation ------------------------- *)

\* A JSON value sent for a float field: a number, or a string.
Num(v) == [t |-> "num", v |-> v, s |-> <<>>]
Str(s) == [t |-> "str", v |-> 0, s |-> s]

Unsigned(s) == IF s # <<>> /\ Head(s) = "-" THEN Tail(s) ELSE s

DotAt(s) == {i \in 1..Len(s) : s[i] = "."}

IntPart(s) ==
    IF DotAt(s) = {} THEN s ELSE SubSeq(s, 1, (CHOOSE i \in DotAt(s) : TRUE) - 1)

FracPart(s) ==
    IF DotAt(s) = {} THEN <<>>
    ELSE SubSeq(s, (CHOOSE i \in DotAt(s) : TRUE) + 1, Len(s))

\* str -> float coercion of a pydantic float field: does the string parse?
IsFloatStr(s) ==
    LET u == Unsigned(s)
    IN  /\ Cardinality(DotAt(u)) <= 1
        /\ AllDigits(IntPart(u))
        /\ AllDigits(FracPart(u))
        /\ Len(IntPart(u)) + Len(FracPart(u)) > 0

StrToFloat(s) ==
    LET u   == Unsigned(s)
        abs == DigitsVal(IntPart(u)) * Unit
               + (DigitsVal(FracPart(u)) * Unit) \div Pow10(Len(FracPart(u)))
    IN  IF u = s THEN abs ELSE 0 - abs

\* variant: the amounts are taken as sent, with no numeric check
FloatOkLax(j) == TRUE

FloatOk(j) == j.t = "num" \/ IsFloatStr(j.s)

FloatOf(j) == IF j.t = "num" THEN j.v ELSE StrToFloat(j.s)

TextFields == {"party", "supplier", "order_no", "invoice_no", "sale_date"}

FloatFields == {"supplier_cost", "client_charge"}

\* class Sale(BaseModel): every field is required, the two amounts are floats
SaleOk(body) ==
    /\ TextFields \subseteq DOMAIN body
    /\ FloatFields \subseteq DOMAIN body
    /\ \A f \in FloatFields : FloatOk(body[f])

\* the validated model: the text fields as sent, the amounts coerced to float
Sale(body) ==
    [party         |-> body.party,
     supplier      |-> body.supplier,
     order_no      |-> body.order_no,
     invoice_no    |-> body.invoice_no,
     sale_date     |-> body.sale_date,
     supplier_cost |-> FloatOf(body.supplier_cost),
     client_charge |-> FloatOf(body.client_charge)]

\* vat_enabled: bool = Query(True)
BoolTrue == {"true", "1", "on", "yes", "t", "y"}

BoolFalse == {"false", "0", "off", "no", "f", "n"}

VatEnabledOk(query) == ~query.present \/ query.value \in BoolTrue \cup BoolFalse

VatEnabled(query) == ~query.present \/ query.value \in BoolTrue

RequestOk(r) == SaleOk(r.body) /\ VatEnabledOk(r.query)

(* ----------------------------- derivation ----------------------------- *)

\* variant: VAT charged whatever the toggle
VatAlways(client_charge, vat_enabled) == (client_charge * VatPercent) \div 100

\* vat = sale.client_charge * VAT_RATE if vat_enabled else 0
Vat(client_charge, vat_enabled) ==
    IF vat_enabled THEN (client_charge * VatPercent) \div 100 ELSE 0

\* total_invoice = sale.client_charge + vat
TotalInvoice(client_charge, vat) == client_charge + vat

\* variant: a loss stored as zero
ProfitClamped(client_charge, supplier_cost) == Max(0, client_charge - supplier_cost)

\* profit = sale.client_charge - sale.supplier_cost
Profit(client_charge, supplier_cost) == client_charge - supplier_cost

(* ------------------------------ the table ----------------------------- *)

RowIds(l) == {l[i].id : i \in 1..Len(l)}

RECURSIVE MaxOf(_)
MaxOf(S) ==
    IF S = {} THEN 0
    ELSE LET x == CHOOSE x \in S : TRUE IN Max(x, MaxOf(S \ {x}))

\* id INTEGER PRIMARY KEY AUTOINCREMENT: one more than the largest id the
\* table ever held (sqlite_sequence) and than the largest it holds now
NextRowid(l, s) == Max(s, MaxOf(RowIds(l))) + 1

\* variant: the two amounts bound to each other's column
SaleRowSwapped(id, sale, vat, total_invoice, profit) ==
    [id            |-> id,
     party         |-> sale.party,
     supplier      |-> sale.supplier,
     order_no      |-> sale.order_no,
     invoice_no    |-> sale.invoice_no,
     sale_date     |-> sale.sale_date,
     supplier_cost |-> sale.client_charge,
     client_charge |-> sale.supplier_cost,
     vat           |-> vat,
     total_invoice |-> total_invoice,
     profit        |-> profit]

\* the row of the INSERT statement
SaleRow(id, sale, vat, total_invoice, profit) ==
    [id            |-> id,
     party         |-> sale.party,
     supplier      |-> sale.supplier,
     order_no      |-> sale.order_no,
     invoice_no    |-> sale.invoice_no,
     sale_date     |-> sale.sale_date,
     supplier_cost |-> sale.supplier_cost,
     client_charge |-> sale.client_charge,
     vat           |-> vat,
     total_invoice |-> total_invoice,
     profit        |-> profit]

\* variant: ids handed out with no write lock
CanWriteAlways(p) == TRUE

\* SQLite lets one connection write at a time: the INSERT of p needs the
\* write lock to be free
CanWrite(p) == writer = 0

(* ------------------------------- dates -------------------------------- *)

NaT == [ok |-> FALSE, year |-> 0, month |-> 0, day |-> 0]

IsLeap(y) == (y % 4 = 0 /\ y % 100 # 0) \/ y % 400 = 0

DaysInMonth(y, m) ==
    IF m = 2 THEN (IF IsLeap(y) THEN 29 ELSE 28)
    ELSE IF m \in {4, 6, 9, 11} THEN 30
    ELSE 31

\* pd.to_datetime(..., errors="coerce") of one string: the date, or NaT
ToDatetime(s) ==
    IF /\ Len(s) = 10
       /\ s[5] = "-"
       /\ s[8] = "-"
       /\ AllDigits(SubSeq(s, 1, 4))
       /\ AllDigits(SubSeq(s, 6, 7))
       /\ AllDigits(SubSeq(s, 9, 10))
    THEN LET y == DigitsVal(SubSeq(s, 1, 4))
             m == DigitsVal(SubSeq(s, 6, 7))
             d == DigitsVal(SubSeq(s, 9, 10))
         IN  IF y >= 1 /\ m \in 1..12 /\ d \in 1..DaysInMonth(y, m)
             THEN [ok |-> TRUE, year |-> y, month |-> m, day |-> d]
             ELSE NaT
    ELSE NaT

\* .dt.strftime("%Y-%m")
StrftimeYm(t) == ZeroPad(t.year, 4) \o <<"-">> \o ZeroPad(t.month, 2)

(* --------------------------- read projections ------------------------- *)

\* SELECT id, party, supplier, order_no, invoice_no, sale_date,
\*        client_charge, total_invoice, profit FROM sales
SummaryRow(r) ==
    <<r.id, r.party, r.supplier, r.order_no, r.invoice_no, r.sale_date,
      r.client_charge, r.total_invoice, r.profit>>

\* SELECT * FROM sales: the columns in the order of CREATE TABLE
FullRow(r) ==
    <<r.id, r.party, r.supplier, r.order_no, r.invoice_no, r.sale_date,
      r.supplier_cost, r.client_charge, r.vat, r.total_invoice, r.profit>>

\* get_sales: [list(row) for row in rows]
GetSales(l) == [i \in 1..Len(l) |-> SummaryRow(l[i])]

\* export_excel: the data rows appended to the sheet
ExportRows(l) == [i \in 1..Len(l) |-> FullRow(l[i])]

\* variant: the WHERE clause dropped
SelectAny(l, sale_id) == l

\* SELECT * FROM sales WHERE id=?  and fetchone(): the rows with that id
SelectById(l, sale_id) == SelectSeq(l, LAMBDA r : r.id = sale_id)

\* invoice: the outcomes of one call (the rounding of a tie can go either way)
Invoice(l, sale_id) ==
    LET rows == SelectById(l, sale_id)
    IN  IF rows = <<>>
        THEN {[op |-> "invoice", sale_id |-> sale_id, error |-> "Sale not found"]}
        ELSE LET row == FullRow(rows[1])
             IN  {[op            |-> "invoice",
                   sale_id       |-> sale_id,
                   error         |-> "",
                   party         |-> row[2],
                   supplier      |-> row[3],
                   order_no      |-> row[4],
                   invoice_no    |-> row[5],
                   sale_date     |-> row[6],
                   supplier_cost |-> row[7],
                   client_charge |-> row[8],
                   vat           |-> v,
                   total_invoice |-> t,
                   profit        |-> p] :
                      v \in Round2(row[9]), t \in Round2(row[10]), p \in Round2(row[11])}

\* df.groupby(col)["profit"].sum().to_dict()
ProfitBy(l, col) ==
    [k \in {l[i][col] : i \in 1..Len(l)} |->
        SumSeq([i \in 1..Len(SelectSeq(l, LAMBDA r : r[col] = k)) |->
                   SelectSeq(l, LAMBDA r : r[col] = k)[i].profit])]

\* dashboard
Dashboard(l) ==
    IF l = <<>>
    THEN [op |-> "dashboard", total_sales |-> 0, total_profit |-> 0,
          by_party |-> <<>>, by_supplier |-> <<>>]
    ELSE [op |-> "dashboard",
          total_sales  |-> Len(l),
          total_profit |-> SumSeq([i \in 1..Len(l) |-> l[i].profit]),
          by_party     |-> ProfitBy(l, "party"),
          by_supplier  |-> ProfitBy(l, "supplier")]

\* variant: the rows with NaT kept
DropNothing(l) == l

\* df["sale_date"] = pd.to_datetime(...); df = df.dropna(subset=["sale_date"])
DropNaT(l) == SelectSeq(l, LAMBDA r : ToDatetime(r.sale_date).ok)

\* variant: grouped by the year alone
MonthOfYear(r) == ZeroPad(ToDatetime(r.sale_date).year, 4) \o <<"-", "0", "1">>

\* df["month"] = df["sale_date"].dt.strftime("%Y-%m")
MonthOf(r) == StrftimeYm(ToDatetime(r.sale_date))

\* the group keys, in the ascending order groupby sorts them into
RECURSIVE SortedKeys(_)
SortedKeys(K) ==
    IF K = {} THEN <<>>
    ELSE LET k == CHOOSE k \in K : \A j \in K \ {k} : LexLess(k, j)
         IN  <<k>> \o SortedKeys(K \ {k})

ColumnSum(l, col) == SumSeq([i \in 1..Len(l) |-> l[i][col]])

\* df.groupby("month").agg({client_charge, vat, profit: "sum"}).reset_index()
\*   .to_dict(orient="records")
MonthlyGroups(df) ==
    LET keys == SortedKeys({MonthOf(df[i]) : i \in 1..Len(df)})
    IN  [n \in 1..Len(keys) |->
            LET g == SelectSeq(df, LAMBDA r : MonthOf(r) = keys[n])
            IN  [month         |-> keys[n],
                 client_charge |-> ColumnSum(g, "client_charge"),
                 vat           |-> ColumnSum(g, "vat"),
                 profit        |-> ColumnSum(g, "profit")]]

\* dashboard_monthly
DashboardMonthly(l) == IF l = <<>> THEN <<>> ELSE MonthlyGroups(DropNaT(l))

(* ------------------------------ requests ------------------------------ *)

Calls == 1..NumCalls

\* the ids an invoice is asked for: every id the table can hold and one more,
\* which is always absent
SaleIds == 1..(NumCalls + 1)

Jan15 == <<"2", "0", "2", "4", "-", "0", "1", "-", "1", "5">>
Jan28 == <<"2", "0", "2", "4", "-", "0", "1", "-", "2", "8">>
Feb03 == <<"2", "0", "2", "4", "-", "0", "2", "-", "0", "3">>
Feb30 == <<"2", "0", "2", "4", "-", "0", "2", "-", "3", "0">>
NotADate == <<"s", "o", "o", "n">>

Body(party, supplier, sale_date, supplier_cost, client_charge) ==
    [party         |-> party,
     supplier      |-> supplier,
     order_no      |-> "ORD-7",
     invoice_no    |-> "INV-7",
     sale_date     |-> sale_date,
     supplier_cost |-> supplier_cost,
     client_charge |-> client_charge]

Without(body, f) == [g \in (DOMAIN body) \ {f} |-> body[g]]

\* a body that also sends values for the derived columns
DerivedFields == {"vat", "total_invoice", "profit"}

WithDerived(body, j) ==
    [g \in (DOMAIN body) \cup DerivedFields |-> IF g \in DOMAIN body THEN body[g] ELSE j]

NoQuery == [present |-> FALSE, value |-> ""]
Query(v) == [present |-> TRUE, value |-> v]

Request(body, query) == [body |-> body, query |-> query]

\* well-formed requests: two sales in January 2024, one in February (its body
\* also sends the derived columns), two with dates that do not parse; amounts
\* as numbers and as a numeric string
ValidRequests ==
    {Request(Body("KONE", "DHL", Jan15, Num(Money(50, 0)), Num(Money(150, 0))), NoQuery),
     Request(Body("KONE", "DHL", Jan28, Num(Money(30, 0)), Num(Money(80, 0))), Query("false")),
     Request(WithDerived(Body("OTIS", "JKJ", Feb03, Num(Money(700, 0)), Num(Money(1000, 0))),
                         Num(Money(999, 0))), Query("true")),
     Request(Body("WALK-IN", "MOK", NotADate, Num(Money(1, 4)),
                  Str(<<"1", ".", "0", "0", "0">>)), Query("1")),
     Request(Body("OTIS", "DHL", Feb30, Num(Money(600, 0)), Num(Money(500, 0))), Query("0"))}

\* malformed requests: a missing field, a non-numeric amount, a bad toggle
InvalidRequests ==
    {Request(Without(Body("KONE", "DHL", Jan15, Num(Money(50, 0)), Num(Money(150, 0))),
                     "sale_date"), NoQuery),
     Request(Body("KONE", "DHL", Jan15, Str(<<"a", "b", "c">>), Num(Money(150, 0))), NoQuery),
     Request(Body("KONE", "DHL", Jan15, Num(Money(50, 0)), Num(Money(150, 0))), Query("maybe"))}

Requests == ValidRequests \cup InvalidRequests

\* amounts for the derivation: zero, sub-cent values, a rounding tie, whole
\* amounts, a negative amount
Amounts ==
    {0, Money(0, 1), Money(0, 5), Money(0, 10), Money(0, 100), Money(1, 0),
     Money(1, 4), Money(500, 0), Money(700, 0), Money(1000, 0), 0 - Money(5, 0)}

WideRequests ==
    {Request(Body("KONE", "DHL", Jan15, Num(cost), Num(charge)), q) :
        cost \in Amounts, charge \in Amounts,
        q \in {NoQuery, Query("true"), Query("false")}}

(* ------------------------------- state -------------------------------- *)

NoReq == Request(<<>>, NoQuery)

NoLoc == [vat_enabled |-> FALSE, vat |-> 0, total_invoice |-> 0, profit |-> 0, rowid |-> 0]

NoOut == [status |-> 0]

NoResp == [op |-> "none"]

Init ==
    /\ ledger = <<>>
    /\ seq = 0
    /\ writer = 0
    /\ pc = [p \in Calls |-> "idle"]
    /\ req = [p \in Calls |-> NoReq]
    /\ loc = [p \in Calls |-> NoLoc]
    /\ out = [p \in Calls |-> NoOut]
    /\ resp = NoResp

(* ----------------------------- record_sale ---------------------------- *)

\* the request arrives: FastAPI validates the body and the query (422 when
\* either fails, and the handler is not entered); the handler derives vat,
\* total_invoice and profit and opens its connection
record_sale_begin(p, r) ==
    /\ pc[p] = "idle"
    /\ IF p = 1 THEN TRUE ELSE pc[p - 1] # "idle"
    /\ req' = [req EXCEPT ![p] = r]
    /\ IF RequestOk(r)
       THEN LET sale == Sale(r.body)
                vat  == Vat(sale.client_charge, VatEnabled(r.query))
            IN  /\ pc' = [pc EXCEPT ![p] = "connected"]
                /\ loc' = [loc EXCEPT ![p] =
                             [vat_enabled   |-> VatEnabled(r.query),
                              vat           |-> vat,
                              total_invoice |-> TotalInvoice(sale.client_charge, vat),
                              profit        |-> Profit(sale.client_charge, sale.supplier_cost),
                              rowid         |-> 0]]
                /\ out' = out
       ELSE /\ pc' = [pc EXCEPT ![p] = "rejected"]
            /\ loc' = loc
            /\ out' = [out EXCEPT ![p] = [status |-> 422]]
    /\ UNCHANGED <<ledger, seq, writer, resp>>

\* cursor.execute(INSERT ...): begins the transaction, takes the write lock
\* and assigns the row its id
record_sale_insert(p) ==
    /\ pc[p] = "connected"
    /\ CanWrite(p)
    /\ writer' = p
    /\ loc' = [loc EXCEPT ![p].rowid = NextRowid(ledger, seq)]
    /\ pc' = [pc EXCEPT ![p] = "inserted"]
    /\ UNCHANGED <<ledger, seq, req, out, resp>>

\* cursor.execute(INSERT ...) while another connection holds the write lock
\* past the connection's timeout: sqlite3.OperationalError, nothing written
record_sale_locked(p) ==
    /\ pc[p] = "connected"
    /\ writer \notin {0, p}
    /\ pc' = [pc EXCEPT ![p] = "failed"]
    /\ out' = [out EXCEPT ![p] = [status |-> 500]]
    /\ UNCHANGED <<ledger, seq, writer, req, loc, resp>>

\* conn.commit(), conn.close() and the JSON response with rounded amounts
record_sale_commit(p) ==
    /\ pc[p] = "inserted"
    /\ ledger' = Append(ledger, SaleRow(loc[p].rowid, Sale(req[p].body), loc[p].vat,
                                        loc[p].total_invoice, loc[p].profit))
    /\ seq' = Max(seq, loc[p].rowid)
    /\ writer' = IF writer = p THEN 0 ELSE writer
    /\ pc' = [pc EXCEPT ![p] = "done"]
    /\ \E v \in Round2(loc[p].vat), t \in Round2(loc[p].total_invoice),
          f \in Round2(loc[p].profit) :
          out' = [out EXCEPT ![p] =
                    [status |-> 200, vat |-> v, total_invoice |-> t, profit |-> f,
                     message |-> "Sale recorded successfully"]]
    /\ UNCHANGED <<req, loc, resp>>

\* conn.commit() raises: the transaction is rolled back with the connection
record_sale_abort(p) ==
    /\ pc[p] = "inserted"
    /\ writer' = IF writer = p THEN 0 ELSE writer
    /\ pc' = [pc EXCEPT ![p] = "failed"]
    /\ out' = [out EXCEPT ![p] = [status |-> 500]]
    /\ UNCHANGED <<ledger, seq, req, loc, resp>>

(* ---------------------------- read handlers --------------------------- *)

get_sales ==
    /\ resp' = [op |-> "get_sales", rows |-> GetSales(ledger)]
    /\ UNCHANGED <<ledger, seq, writer, pc, req, loc, out>>

export_excel ==
    /\ resp' = [op |-> "export_excel", rows |-> ExportRows(ledger)]
    /\ UNCHANGED <<ledger, seq, writer, pc, req, loc, out>>

invoice ==
    /\ \E sale_id \in SaleIds : resp' \in Invoice(ledger, sale_id)
    /\ UNCHANGED <<ledger, seq, writer, pc, req, loc, out>>

dashboard ==
    /\ resp' = Dashboard(ledger)
    /\ UNCHANGED <<ledger, seq, writer, pc, req, loc, out>>

\* variant: the frame without the NaT rows written back to the table
dashboard_monthly_writeback ==
    /\ resp' = [op |-> "dashboard_monthly", months |-> DashboardMonthly(ledger)]
    /\ ledger' = DropNaT(ledger)
    /\ UNCHANGED <<seq, writer, pc, req, loc, out>>

dashboard_monthly ==
    /\ resp' = [op |-> "dashboard_monthly", months |-> DashboardMonthly(ledger)]
    /\ UNCHANGED <<ledger, seq, writer, pc, req, loc, out>>

(* --------------------------- specifications --------------------------- *)

Next ==
    \/ \E p \in Calls : \E r \in Requests : record_sale_begin(p, r)
    \/ \E p \in Calls : record_sale_insert(p)
    \/ \E p \in Calls : record_sale_locked(p)
    \/ \E p \in Calls : record_sale_commit(p)
    \/ \E p \in Calls : record_sale_abort(p)
    \/ get_sales
    \/ export_excel
    \/ invoice
    \/ dashboard
    \/ dashboard_monthly

Spec == Init /\ [][Next]_vars

\* one record_sale call at a time, over the whole range of amounts
NextDerive ==
    \/ \E r \in WideRequests : record_sale_begin(1, r)
    \/ record_sale_insert(1)
    \/ record_sale_commit(1)

SpecDerive == Init /\ [][NextDerive]_vars

(* ------------------------------- delete ------------------------------- *)

\* variant: the record removed by its position
DeleteRowAt(l, sale_id) ==
    IF sale_id \in 1..Len(l)
    THEN SubSeq(l, 1, sale_id - 1) \o SubSeq(l, sale_id + 1, Len(l))
    ELSE l

\* delete(id): removes the record if present
DeleteRow(l, sale_id) == SelectSeq(l, LAMBDA r : r.id # sale_id)

\* delete(id) -> success, whether or not the id is present
delete_sale ==
    /\ writer = 0
    /\ \E sale_id \in SaleIds :
          /\ ledger' = DeleteRow(ledger, sale_id)
          /\ resp' = [op |-> "delete", sale_id |-> sale_id, status |-> "success"]
    /\ UNCHANGED <<seq, writer, pc, req, loc, out>>

NextDelete ==
    \/ \E p \in Calls : \E r \in ValidRequests : record_sale_begin(p, r)
    \/ \E p \in Calls : record_sale_insert(p)
    \/ \E p \in Calls : record_sale_commit(p)
    \/ get_sales
    \/ delete_sale

SpecDelete == Init /\ [][NextDelete]_vars

(* ======================================================================= *)
(*                               properties                                *)
(* ======================================================================= *)

\* what a call submitted
Charge(p) == FloatOf(req[p].body.client_charge)
Cost(p) == FloatOf(req[p].body.supplier_cost)
ToggleOn(p) == ~req[p].query.present \/ req[p].query.value \in {"true", "1"}

\* a call that got past validation, and one that has committed its row
Derived(p) == pc[p] \in {"connected", "inserted", "done"}
Done(p) == pc[p] = "done"

\* the committed row of a call that is done
RowOf(p) == SelectById(ledger, loc[p].rowid)[1]

HalfCent == Unit \div 200

RECURSIVE SumAt(_, _, _)
SumAt(l, I, col) ==
    IF I = {} THEN 0
    ELSE LET i == CHOOSE i \in I : TRUE IN l[i][col] + SumAt(l, I \ {i}, col)

(* ---- C1 ---- *)
\* C1: for non-negative client_charge and supplier_cost, record_sale derives
\* vat = 0.15 * client_charge with the toggle on and vat = 0 with it off, and
\* total_invoice = client_charge + vat in both cases (1000 with VAT gives 150
\* and 1150; 500 without VAT gives 0 and 500); the committed row holds them.
C1_VatAndTotal ==
    \A p \in Calls :
        (Derived(p) /\ Charge(p) >= 0 /\ Cost(p) >= 0) =>
            /\ ToggleOn(p) => 100 * loc[p].vat = VatPercent * Charge(p)
            /\ ~ToggleOn(p) => loc[p].vat = 0 /\ loc[p].total_invoice = Charge(p)
            /\ loc[p].total_invoice = Charge(p) + loc[p].vat
            /\ (ToggleOn(p) /\ Charge(p) = Money(1000, 0)) =>
                   loc[p].vat = Money(150, 0) /\ loc[p].total_invoice = Money(1150, 0)
            /\ (~ToggleOn(p) /\ Charge(p) = Money(500, 0)) =>
                   loc[p].vat = 0 /\ loc[p].total_invoice = Money(500, 0)
            /\ Done(p) => /\ RowOf(p).vat = loc[p].vat
                          /\ RowOf(p).total_invoice = loc[p].total_invoice

C1_Witness ==
    \E p \in Calls :
        /\ Done(p) /\ ToggleOn(p) /\ Charge(p) = Money(1000, 0)
        /\ RowOf(p).vat = Money(150, 0)
        /\ RowOf(p).total_invoice = Money(1150, 0)

(* ---- C2 ---- *)
\* C2 as stated: profit = client_charge - supplier_cost whatever the toggle,
\* and whenever supplier_cost > client_charge both the stored and the
\* returned profit are negative.
C2_StoredAndReturnedNegative ==
    \A p \in Calls :
        Done(p) =>
            /\ RowOf(p).profit = Charge(p) - Cost(p)
            /\ Cost(p) > Charge(p) => RowOf(p).profit < 0 /\ out[p].profit < 0

\* C2 amended: the stored profit is client_charge - supplier_cost whatever the
\* toggle, negative whenever supplier_cost > client_charge (no clamping); the
\* returned profit is the stored one rounded to 2 decimals, so it is never
\* positive then, and negative once the loss exceeds half a cent.
C2_StoredNegativeReturnedRounded ==
    \A p \in Calls :
        Done(p) =>
            /\ RowOf(p).profit = Charge(p) - Cost(p)
            /\ loc[p].profit = Charge(p) - Cost(p)
            /\ out[p].profit % (2 * HalfCent) = 0
            /\ out[p].profit - RowOf(p).profit \in (0 - HalfCent)..HalfCent
            /\ Cost(p) > Charge(p) => RowOf(p).profit < 0 /\ out[p].profit <= 0
            /\ Cost(p) - Charge(p) > HalfCent => out[p].profit < 0

C2_Witness ==
    \E p \in Calls :
        /\ Done(p) /\ Cost(p) > Charge(p)
        /\ RowOf(p).profit < 0
        /\ out[p].profit = 0

(* ---- C3 ---- *)
\* derive of the specification, on the inputs of a call
DeriveVat(p) == IF ToggleOn(p) THEN (VatPercent * Charge(p)) \div 100 ELSE 0

\* C3: once record_sale has succeeded, and after any further operations,
\* SELECT * by the record's id yields one row holding the submitted party,
\* supplier, order_no, invoice_no, sale_date, supplier_cost and client_charge,
\* and vat, total_invoice and profit as derive gives them on those inputs with
\* the toggle of the call, whatever the body sent for the derived columns.
C3_RoundTrip ==
    \A p \in Calls :
        Done(p) =>
            LET rows == SelectById(ledger, loc[p].rowid)
                b    == req[p].body
            IN  /\ Len(rows) = 1
                /\ rows[1].id = loc[p].rowid
                /\ rows[1].party = b.party
                /\ rows[1].supplier = b.supplier
                /\ rows[1].order_no = b.order_no
                /\ rows[1].invoice_no = b.invoice_no
                /\ rows[1].sale_date = b.sale_date
                /\ rows[1].supplier_cost = Cost(p)
                /\ rows[1].client_charge = Charge(p)
                /\ rows[1].vat = DeriveVat(p)
                /\ rows[1].total_invoice = Charge(p) + DeriveVat(p)
                /\ rows[1].profit = Charge(p) - Cost(p)

\* a call whose body also sent the derived columns has committed, another row
\* was committed after it, and the invoice has read the record back by its id
C3_Witness ==
    \E p \in Calls :
        /\ Done(p)
        /\ DerivedFields \subseteq DOMAIN req[p].body
        /\ \E i \in 1..Len(ledger) : ledger[i].id > loc[p].rowid
        /\ resp.op = "invoice" /\ resp.sale_id = loc[p].rowid /\ resp.error = ""

(* ---- C4 ---- *)
\* the row a call inserts, from what it submitted
SubmittedRow(p) ==
    [id            |-> loc[p].rowid,
     party         |-> req[p].body.party,
     supplier      |-> req[p].body.supplier,
     order_no      |-> req[p].body.order_no,
     invoice_no    |-> req[p].body.invoice_no,
     sale_date     |-> req[p].body.sale_date,
     supplier_cost |-> Cost(p),
     client_charge |-> Charge(p),
     vat           |-> DeriveVat(p),
     total_invoice |-> Charge(p) + DeriveVat(p),
     profit        |-> Charge(p) - Cost(p)]

C4_Rows ==
    /\ \A p \in Calls :
          Done(p) => Cardinality({i \in 1..Len(ledger) : ledger[i] = SubmittedRow(p)}) = 1
    /\ \A p, q \in Calls : (Done(p) /\ Done(q) /\ p # q) => loc[p].rowid # loc[q].rowid
    /\ Len(ledger) = Cardinality({p \in Calls : Done(p)})
    /\ \A i, j \in 1..Len(ledger) : i < j => ledger[i].id < ledger[j].id

C4_Step ==
    /\ Len(ledger') >= Len(ledger)
    /\ \A i \in 1..Len(ledger) : ledger'[i] = ledger[i]
    /\ \A p \in Calls : (Done(p)' /\ ~Done(p)) => Len(ledger') = Len(ledger) + 1

\* C4: under every interleaving of concurrent record_sale calls, every call
\* that completes has added exactly one complete row, no row is lost or
\* partial (the rows are exactly those of the completed calls), all ids are
\* pairwise distinct and strictly increasing in commit order, and a committed
\* row keeps its id and content for ever.
C4_ConcurrentInserts == [](C4_Rows) /\ [][C4_Step]_vars

\* two calls overlapped: the one that arrived second committed first, the
\* other waited for the write lock and committed after it
C4_Witness ==
    /\ Done(1) /\ Done(2)
    /\ loc[2].rowid < loc[1].rowid
    /\ Len(ledger) = 2

(* ---- C5 ---- *)
Parsed(l) == {i \in 1..Len(l) : ToDatetime(l[i].sale_date).ok}

YearMonth(r) == <<ToDatetime(r.sale_date).year, ToDatetime(r.sale_date).month>>

\* the year and month a YYYY-MM key names
KeyYearMonth(k) ==
    IF Len(k) = 7 /\ k[5] = "-" /\ AllDigits(SubSeq(k, 1, 4)) /\ AllDigits(SubSeq(k, 6, 7))
    THEN <<DigitsVal(SubSeq(k, 1, 4)), DigitsVal(SubSeq(k, 6, 7))>>
    ELSE <<0, 0>>

InMonth(l, ym) == {i \in Parsed(l) : YearMonth(l[i]) = ym}

\* C5: for every ledger content dashboard_monthly returns exactly one entry
\* per calendar month (as YYYY-MM) in which a record with a parseable date
\* falls, and no other entry; the entry's profit, client_charge and vat are
\* the sums of those fields over exactly the records dated in that month.
C5_MonthlySums ==
    LET res == DashboardMonthly(ledger)
    IN  /\ \A i \in Parsed(ledger) :
              Cardinality({n \in 1..Len(res) :
                              KeyYearMonth(res[n].month) = YearMonth(ledger[i])}) = 1
        /\ \A n \in 1..Len(res) :
              LET I == InMonth(ledger, KeyYearMonth(res[n].month))
              IN  /\ I # {}
                  /\ res[n].profit = SumAt(ledger, I, "profit")
                  /\ res[n].client_charge = SumAt(ledger, I, "client_charge")
                  /\ res[n].vat = SumAt(ledger, I, "vat")

\* the sales of 15 and 28 January 2024, with profits 100 and 50, are in the
\* ledger; the response has the one January entry, with profit 150
C5_Witness ==
    /\ resp.op = "dashboard_monthly"
    /\ resp.months = DashboardMonthly(ledger)
    /\ Len(resp.months) = 1
    /\ resp.months[1].month = <<"2", "0", "2", "4", "-", "0", "1">>
    /\ resp.months[1].profit = Money(150, 0)
    /\ \E i, j \in 1..Len(ledger) :
          /\ ledger[i].sale_date = Jan15 /\ ledger[i].profit = Money(100, 0)
          /\ ledger[j].sale_date = Jan28 /\ ledger[j].profit = Money(50, 0)

(* ---- C6 ---- *)
WithoutRow(l, i) == SubSeq(l, 1, i - 1) \o SubSeq(l, i + 1, Len(l))

\* C6: a record whose sale_date does not parse contributes to no entry of
\* dashboard_monthly (the result is what it would be without the record),
\* yet it stays in the ledger: get_sales lists it and the dashboard totals
\* count it.
C6_UnparseableExcluded ==
    \A i \in (1..Len(ledger)) \ Parsed(ledger) :
        LET rest == WithoutRow(ledger, i)
        IN  /\ DashboardMonthly(ledger) = (IF rest = <<>> THEN <<>> ELSE DashboardMonthly(rest))
            /\ \A n \in 1..Len(DashboardMonthly(ledger)) :
                  KeyYearMonth(DashboardMonthly(ledger)[n].month) \in
                      {YearMonth(ledger[j]) : j \in Parsed(ledger)}
            /\ GetSales(ledger)[i] = SummaryRow(ledger[i])
            /\ Len(GetSales(ledger)) = Len(ledger)
            /\ Dashboard(ledger).total_sales = Len(ledger)
            /\ Dashboard(ledger).total_profit =
                  ledger[i].profit + SumAt(ledger, (1..Len(ledger)) \ {i}, "profit")

\* a record with a date that does not parse and one with a date that does
\* are in the ledger, and the monthly response holds one entry
C6_Witness ==
    /\ resp.op = "dashboard_monthly"
    /\ resp.months = DashboardMonthly(ledger)
    /\ Len(resp.months) = 1
    /\ Len(ledger) = 2
    /\ \E i \in 1..Len(ledger) : ledger[i].sale_date = NotADate

(* ---- C7 ---- *)
AllFields == TextFields \cup FloatFields

\* a payload with a missing field or a non-numeric amount
Malformed(body) ==
    \/ \E f \in AllFields : f \notin DOMAIN body
    \/ \E f \in FloatFields :
          /\ body[f].t = "str"
          /\ \E i \in 1..Len(body[f].s) : ~IsDigit(body[f].s[i]) /\ body[f].s[i] \notin {".", "-"}

C7_Rejected ==
    \A p \in Calls :
        (pc[p] # "idle" /\ Malformed(req[p].body)) =>
            /\ pc[p] = "rejected"
            /\ out[p].status = 422
            /\ loc[p] = NoLoc

C7_Step ==
    \A p \in Calls :
        (pc[p] = "idle" /\ pc'[p] # "idle" /\ Malformed(req'[p].body)) =>
            /\ ledger' = ledger
            /\ seq' = seq
            /\ writer' = writer

\* C7: a record_sale request whose payload has a missing field or a
\* non-numeric supplier_cost or client_charge is rejected with a validation
\* error before any INSERT: it never holds the write lock or a row id, and the
\* ledger and the id counter after it are those before it.
C7_ValidationBeforeInsert == [](C7_Rejected) /\ [][C7_Step]_vars

\* a payload with every field and a non-numeric supplier_cost was rejected,
\* with a record in the ledger
C7_Witness ==
    /\ \E p \in Calls :
          /\ pc[p] = "rejected"
          /\ AllFields \subseteq DOMAIN req[p].body
          /\ req[p].body.supplier_cost.t = "str"
    /\ ledger # <<>>

(* ---- C8 ---- *)
C8_Outcomes ==
    \A sale_id \in SaleIds :
        \A o \in Invoice(ledger, sale_id) :
            IF sale_id \in RowIds(ledger)
            THEN /\ o.error = ""
                 /\ \E i \in 1..Len(ledger) :
                       /\ ledger[i].id = sale_id
                       /\ o.party = ledger[i].party
                       /\ o.sale_date = ledger[i].sale_date
                       /\ o.supplier_cost = ledger[i].supplier_cost
                       /\ o.client_charge = ledger[i].client_charge
                       /\ o.vat \in Round2(ledger[i].vat)
                       /\ o.total_invoice \in Round2(ledger[i].total_invoice)
                       /\ o.profit \in Round2(ledger[i].profit)
            ELSE /\ o.error = "Sale not found"
                 /\ DOMAIN o = {"op", "sale_id", "error"}

C8_Step == (resp' # resp /\ resp'.op = "invoice") => ledger' = ledger /\ seq' = seq

\* C8: invoice(sale_id) ends in the not-found error, with no invoice, whenever
\* sale_id is absent from the ledger, and leaves the ledger as it was;
\* whenever sale_id is present it succeeds and shows that record's vat,
\* total_invoice and profit (rounded to 2 decimals).
C8_InvoiceNotFound == [](C8_Outcomes) /\ [][C8_Step]_vars

\* an invoice was asked for an id that the non-empty ledger does not hold
C8_Witness ==
    /\ resp.op = "invoice"
    /\ resp.error = "Sale not found"
    /\ ledger # <<>>
    /\ resp.sale_id \notin RowIds(ledger)
    /\ resp.sale_id > 0

(* ---- C9 ---- *)
C9_Outcomes ==
    \A sale_id \in SaleIds :
        LET after == DeleteRow(ledger, sale_id)
            kept  == {i \in 1..Len(ledger) : ledger[i].id # sale_id}
        IN  /\ \A n \in 1..Len(GetSales(after)) : GetSales(after)[n][1] # sale_id
            /\ Len(after) = Cardinality(kept)
            /\ \A i \in kept : \E n \in 1..Len(after) : after[n] = ledger[i]
            /\ sale_id \notin RowIds(ledger) => after = ledger
            /\ DeleteRow(after, sale_id) = after

C9_Step ==
    (resp' # resp /\ resp'.op = "delete") =>
        /\ resp'.status = "success"
        /\ ledger' = DeleteRow(ledger, resp'.sale_id)
        /\ resp'.sale_id \notin RowIds(ledger')

\* C9: deleting a record removes it, so that a listing after it no longer
\* includes it while every other record is listed unchanged; deleting an id
\* that is absent or already deleted changes nothing and succeeds.
C9_DeleteIdempotent == [](C9_Outcomes) /\ [][C9_Step]_vars

\* a record was deleted from a ledger of two, and the listing was taken after
C9_Witness ==
    /\ resp.op = "get_sales"
    /\ Len(resp.rows) = 1
    /\ seq = 2
    /\ Len(ledger) = 1
    /\ resp.rows[1] = SummaryRow(ledger[1])

(* ---- C10 ---- *)
CommitStep(p) ==
    /\ pc[p] = "inserted"
    /\ pc'[p] = "done"
    /\ \E row \in {SubmittedRow(p)} : ledger' = Append(ledger, row)

C10_Step ==
    /\ (resp' # resp) => (ledger' = ledger /\ seq' = seq)
    /\ (ledger' # ledger) => \E p \in Calls : CommitStep(p)

\* C10: get_sales, export_excel, invoice, dashboard and dashboard_monthly
\* leave the ledger as it was, also between the steps of record_sale calls;
\* the only step that changes the ledger is the commit of a record_sale, and
\* it appends the row of that call.
C10_ReadsLeaveLedger == [][C10_Step]_vars

\* an export ran on a non-empty ledger while a record_sale call was between
\* its INSERT and its commit
C10_Witness ==
    /\ resp.op = "export_excel"
    /\ resp.rows = ExportRows(ledger)
    /\ ledger # <<>>
    /\ \E p \in Calls : pc[p] = "inserted"

====
